---- MODULE Spec2Model ----
(***************************************************************************)
(* URL shortener: DatabaseStorage (storage.ts) and the three HTTP routes   *)
(* of registerRoutes (routes.ts), as a state machine over the urls         *)
(* collection.  Each await of the code is one step of a request, so the    *)
(* steps of concurrent requests interleave between the awaits.             *)
(*                                                                         *)
(* The numeric id of a returned Url (parseInt of the ObjectId's text) is   *)
(* not part of the model: a document is identified by its _id, no          *)
(* operation looks a record up by id.                                      *)
(***************************************************************************)
EXTENDS Integers, Sequences, FiniteSets, TLC

\* ------------------------------------------------------------- bounds
\* At most MaxCalls calls and HTTP requests are made in one run.
MaxCalls == 2

\* ------------------------------------------------------------- values
\* The concurrent requests (callers) of the model.
Procs == {"r1", "r2"}

\* JavaScript's undefined and null, as sequences no string is equal to.
Undefined == <<"#undefined">>
Null == <<"#null">>

\* generateShortCode's default length.
CodeLength == 6
\* The characters nanoid draws from, cut down to two.
Alphabet == {"a", "b"}

\* The draws of nanoid(length) the model follows: the strings of that
\* length made of one repeated character.
nanoid(length) ==
  {[i \in 1..length |-> ch] : ch \in Alphabet}

\* generateShortCode(length = 6): the set of codes one call can return.
generateShortCode ==
  nanoid(CodeLength)

\* The strings callers pass as customAlias: the empty string, a short
\* alias, and an alias spelled like a code nanoid can draw.
AliasStrings == {<<>>, <<"p">>, [i \in 1..CodeLength |-> "a"]}
AliasArgs == AliasStrings \cup {Undefined}

\* The shortCode arguments of lookups.
CodeArgs == {<<"p">>, [i \in 1..CodeLength |-> "a"]}

LongUrls == {"https://example.com", "https://example.org"}

\* getRecentUrls' default limit, and the limit the route passes.
DefaultLimit == 10
RouteLimit == 10
LimitArgs == {0, 1, DefaultLimit}

\* A test that takes every string, the empty one included, for a value.
Defined(v) ==
  v # Undefined /\ v # Null

\* JavaScript truthiness of a string | undefined | null value.
Truthy(v) ==
  v # Undefined /\ v # Null /\ v # <<>>

\* a || b
OrElse(a, b) ==
  IF Truthy(a) THEN a ELSE b

\* ------------------------------------------------------------- state
VARIABLES
  urls,        \* the urls collection: its documents in insertion order
  now,         \* the clock: the last value new Date() returned
  req,         \* per request: the operation, its position and its locals
  pendingInc,  \* detached incrementUrlClicks calls, per shortCode
  calls,       \* the calls and HTTP requests made so far
  applied,     \* history: per shortCode, the incrementUrlClicks calls that
               \* completed on an existing record
  resolved     \* history: per shortCode, the 200 responses of
               \* GET /api/redirect

vars == <<urls, now, req, pendingInc, calls, applied, resolved>>

\* ------------------------------------------------------------- the store
\* The positions of the documents with this shortCode.
Matching(store, shortCode) ==
  {i \in 1..Len(store) : store[i].shortCode = shortCode}

\* The shortCodes in the store.
ShortCodes(store) ==
  {store[i].shortCode : i \in 1..Len(store)}

\* UrlModel.findOne({ shortCode }): the position of the first matching
\* document in natural order, 0 when there is none.
findOne(store, shortCode) ==
  IF Matching(store, shortCode) = {} THEN 0
  ELSE CHOOSE i \in Matching(store, shortCode) :
         \A j \in Matching(store, shortCode) : i <= j

\* A collection without the unique index: every document is accepted.
NoUniqueIndex(store, doc) ==
  TRUE

\* The urls collection's unique index on shortCode: whether the store
\* accepts doc.
UniqueShortCode(store, doc) ==
  Matching(store, doc.shortCode) = {}

\* A document that starts with one click.
NewUrlOneClick(shortCode, longUrl, customAlias, createdAt) ==
  [shortCode |-> shortCode, longUrl |-> longUrl,
   customAlias |-> OrElse(customAlias, Null),
   createdAt |-> createdAt, clicks |-> 1]

\* new UrlModel({...}): the document createShortUrl builds.
NewUrl(shortCode, longUrl, customAlias, createdAt) ==
  [shortCode |-> shortCode, longUrl |-> longUrl,
   customAlias |-> OrElse(customAlias, Null),
   createdAt |-> createdAt, clicks |-> 0]

\* A save that inserts the document twice.
saveTwice(store, doc) ==
  Append(Append(store, [_id |-> Len(store) + 1] @@ doc),
         [_id |-> Len(store) + 2] @@ doc)

\* newUrl.save(): the store with the document inserted under a fresh _id.
save(store, doc) ==
  Append(store, [_id |-> Len(store) + 1] @@ doc)

\* The Url a storage method returns for a document: its fields but _id.
ToUrl(doc) ==
  [shortCode |-> doc.shortCode, longUrl |-> doc.longUrl,
   customAlias |-> doc.customAlias, createdAt |-> doc.createdAt,
   clicks |-> doc.clicks]

\* The update with { upsert: true }: a document is inserted when none
\* matches.
findOneAndUpsertInc(store, shortCode) ==
  IF findOne(store, shortCode) = 0
  THEN Append(store, [_id |-> Len(store) + 1, shortCode |-> shortCode,
                      longUrl |-> "", customAlias |-> Null, createdAt |-> 0,
                      clicks |-> 1])
  ELSE [store EXCEPT ![findOne(store, shortCode)].clicks = @ + 1]

\* The update as a write of a count read earlier: { $set: { clicks: 1 } }
\* from a read of 0.
findOneAndSetClicks(store, shortCode) ==
  IF findOne(store, shortCode) = 0 THEN store
  ELSE [store EXCEPT ![findOne(store, shortCode)].clicks = 1]

\* The update on a schema that stamps the document on every write.
findOneAndUpdateStamping(store, shortCode) ==
  IF findOne(store, shortCode) = 0 THEN store
  ELSE [store EXCEPT ![findOne(store, shortCode)].clicks = @ + 1,
                     ![findOne(store, shortCode)].createdAt = @ + 1]

\* UrlModel.findOneAndUpdate({ shortCode }, { $inc: { clicks: 1 } }): one
\* atomic update of the first matching document, none when there is none.
findOneAndUpdateInc(store, shortCode) ==
  IF findOne(store, shortCode) = 0 THEN store
  ELSE [store EXCEPT ![findOne(store, shortCode)].clicks = @ + 1]

\* The orders find({}).sort({ createdAt: -1 }) can return the documents
\* in: createdAt descending, documents of equal createdAt in any order.
SortedByCreatedAtDesc(store) ==
  {o \in [1..Len(store) -> 1..Len(store)] :
     /\ \A i, j \in 1..Len(store) : i # j => o[i] # o[j]
     /\ \A i, j \in 1..Len(store) :
          i < j => store[o[i]].createdAt >= store[o[j]].createdAt}

\* .limit(n) on a cursor of len documents: how many come back.  A limit
\* of 0 is no limit.
Limited(len, n) ==
  IF n = 0 \/ n > len THEN len ELSE n

\* The results getRecentUrls(limit) can return.
RecentUrls(store, limit) ==
  {[i \in 1..Limited(Len(store), limit) |-> ToUrl(store[o[i]])] :
     o \in SortedByCreatedAtDesc(store)}

\* ------------------------------------------------------------- requests
\* What a finished operation left: nothing yet, a returned value, a thrown
\* error, or the HTTP response sent.
NoRet == [kind |-> "none"]
Returned(value) == [kind |-> "return", value |-> value]
Threw(error) == [kind |-> "throw", error |-> error]
Response(status, body) == [kind |-> "response", status |-> status, body |-> body]

\* getUrlByShortCode's undefined, incrementUrlClicks' void.
AbsentUrl == [absent |-> TRUE]
Void == [void |-> TRUE]

Idle ==
  [op |-> "none", pc |-> "idle", longUrl |-> "", customAlias |-> Undefined,
   shortCode |-> Undefined, createdAt |-> 0, limit |-> 0, pre |-> {},
   failed |-> FALSE, ret |-> NoRet]

\* A request at the first await of its operation.  For createShortUrl, pre
\* records the shortCodes the store held when the call was made; failed
\* records that the store rejected a query of the operation.
Started(op, pc, longUrl, customAlias, shortCode, limit, pre) ==
  [op |-> op, pc |-> pc, longUrl |-> longUrl, customAlias |-> customAlias,
   shortCode |-> shortCode, createdAt |-> 0, limit |-> limit, pre |-> pre,
   failed |-> FALSE, ret |-> NoRet]

\* p can make its next call.
Free(p) ==
  /\ req[p].pc \in {"idle", "done"}
  /\ calls < MaxCalls

\* The scheme and host of the request, and the shortUrl the routes build.
BaseUrl == <<"h">>
ShortUrl(shortCode) == BaseUrl \o <<"/">> \o shortCode

\* urlFormSchema.safeParse(req.body): a body passes when its longUrl is a
\* URL; longUrl and customAlias pass through unchanged.
safeParse(body) ==
  [success |-> body.longUrl \in LongUrls, data |-> body]

\* The request bodies POST /api/shorten is sent.
Bodies ==
  [longUrl : {"https://example.com", "not a url"},
   customAlias : {Undefined, <<"p">>}]

\* ---- how each route answers what its storage call left
\* The route answering a failed createShortUrl with 409.
ShortenResponse409(out) ==
  IF out.kind = "return"
  THEN Response(201, [shortCode |-> out.value.shortCode,
                      longUrl |-> out.value.longUrl,
                      shortUrl |-> ShortUrl(out.value.shortCode),
                      createdAt |-> out.value.createdAt,
                      clicks |-> out.value.clicks])
  ELSE Response(409, [message |-> "Database error while creating short URL",
                      error |-> out.error])

\* POST /api/shorten, routes.ts 26-47.
ShortenResponse(out) ==
  IF out.kind = "return"
  THEN Response(201, [shortCode |-> out.value.shortCode,
                      longUrl |-> out.value.longUrl,
                      shortUrl |-> ShortUrl(out.value.shortCode),
                      createdAt |-> out.value.createdAt,
                      clicks |-> out.value.clicks])
  ELSE Response(500, [message |-> "Database error while creating short URL",
                      error |-> out.error])

\* GET /api/urls/recent, routes.ts 82-95.
RecentResponse(out) ==
  IF out.kind = "return"
  THEN Response(200, [i \in 1..Len(out.value) |->
                        out.value[i] @@ [shortUrl |-> ShortUrl(out.value[i].shortCode)]])
  ELSE Response(500, [message |-> "Failed to fetch recent URLs"])

\* How createShortUrl's outcome reaches the caller: as it is for a direct
\* call, as the route's response for POST /api/shorten.
CreateOutcome(p, out) ==
  IF req[p].op = "POST /api/shorten" THEN ShortenResponse(out) ELSE out

\* p makes a call: it is at r, and the call is counted.
Begin(p, r) ==
  /\ req' = [req EXCEPT ![p] = r]
  /\ calls' = calls + 1

\* p's operation ends with ret.
Finish(p, ret) ==
  /\ req' = [req EXCEPT ![p].pc = "done", ![p].createdAt = 0, ![p].ret = ret]
  /\ calls' = calls

\* ------------------------------------------------------------- initial state
\* The collection as the process finds it when it starts: empty, or with
\* the record an earlier createShortUrl(longUrl, "p") left.
InitialUrls ==
  {<<>>, save(<<>>, NewUrl(<<"p">>, "https://example.com", <<"p">>, 0))}

Init ==
  /\ urls \in InitialUrls
  /\ now = 0
  /\ req = [p \in Procs |-> Idle]
  /\ pendingInc = [c \in CodeArgs |-> 0]
  /\ calls = 0
  /\ applied = [c \in CodeArgs |-> 0]
  /\ resolved = [c \in CodeArgs |-> 0]

\* The values new Date() can return: time passes unobserved between two
\* readings of the clock, so a reading is the last one or a later one.
NewDate ==
  {now, now + 1}

\* ------------------------------------------------------------- createShortUrl
\* A caller calls storage.createShortUrl(longUrl, customAlias).
InvokeCreateShortUrl(p) ==
  /\ Free(p)
  /\ \E longUrl \in LongUrls, customAlias \in AliasArgs :
       Begin(p, Started("createShortUrl", "connect", longUrl, customAlias,
                        Undefined, 0, ShortCodes(urls)))
  /\ UNCHANGED <<urls, now, pendingInc, applied, resolved>>

\* POST /api/shorten arrives: the body is validated, and a valid one is
\* handed to storage.createShortUrl.
PostShorten(p) ==
  /\ Free(p)
  /\ \E body \in Bodies :
       LET parsed == safeParse(body) IN
       Begin(p, IF ~parsed.success
                THEN [Started("POST /api/shorten", "done", body.longUrl,
                              body.customAlias, Undefined, 0, {})
                        EXCEPT !.ret = Response(400, [message |-> "Validation error"])]
                ELSE Started("POST /api/shorten", "connect", parsed.data.longUrl,
                             parsed.data.customAlias, Undefined, 0,
                             ShortCodes(urls)))
  /\ UNCHANGED <<urls, now, pendingInc, applied, resolved>>

\* createShortUrl after connectToDatabase: the shortCode is the alias, or a
\* generated code when the alias is falsy; with an alias the availability
\* check comes next, without one the document is built and saved.
CreateChooseCode(p) ==
  /\ req[p].pc = "connect"
  /\ IF Truthy(req[p].customAlias)
     THEN /\ req' = [req EXCEPT ![p].shortCode = req[p].customAlias,
                                ![p].pc = "available"]
          /\ now' = now
     ELSE \E shortCode \in generateShortCode, date \in NewDate :
          /\ req' = [req EXCEPT ![p].shortCode = shortCode,
                                ![p].pc = "save",
                                ![p].createdAt = date]
          /\ now' = date
  /\ UNCHANGED <<urls, pendingInc, calls, applied, resolved>>

\* An availability check that finds every code free.
AlwaysAvailable(store, shortCode) ==
  TRUE

\* isShortCodeAvailable(shortCode) on a store.
isShortCodeAvailable(store, shortCode) ==
  findOne(store, shortCode) = 0

\* createShortUrl's availability check of the alias: a taken alias throws,
\* a free one goes on to build the document, reading the clock.
CreateCheckAlias(p) ==
  /\ req[p].pc = "available"
  /\ IF ~isShortCodeAvailable(urls, req[p].customAlias)
     THEN /\ Finish(p, CreateOutcome(p, Threw("Custom alias is already in use")))
          /\ now' = now
     ELSE \E date \in NewDate :
          /\ req' = [req EXCEPT ![p].pc = "save", ![p].createdAt = date]
          /\ now' = date
          /\ calls' = calls
  /\ UNCHANGED <<urls, pendingInc, applied, resolved>>

\* A save that leaves the document in the store when it is rejected.
CreateSaveKeepingRejected(p) ==
  /\ req[p].pc = "save"
  /\ LET doc == NewUrl(req[p].shortCode, req[p].longUrl, req[p].customAlias,
                       req[p].createdAt) IN
     /\ urls' = save(urls, doc)
     /\ IF UniqueShortCode(urls, doc)
        THEN Finish(p, CreateOutcome(p, Returned(ToUrl(urls'[Len(urls')]))))
        ELSE Finish(p, CreateOutcome(p, Threw("E11000 duplicate key")))
  /\ UNCHANGED <<now, pendingInc, applied, resolved>>

\* newUrl.save() and the return of the saved document; the unique index
\* rejects a document whose shortCode is taken.
CreateSave(p) ==
  /\ req[p].pc = "save"
  /\ LET doc == NewUrl(req[p].shortCode, req[p].longUrl, req[p].customAlias,
                       req[p].createdAt) IN
     IF UniqueShortCode(urls, doc)
     THEN /\ urls' = save(urls, doc)
          /\ Finish(p, CreateOutcome(p, Returned(ToUrl(urls'[Len(urls')]))))
     ELSE /\ urls' = urls
          /\ Finish(p, CreateOutcome(p, Threw("E11000 duplicate key")))
  /\ UNCHANGED <<now, pendingInc, applied, resolved>>

\* ------------------------------------------------------------- the reads
\* A read makes one query and touches nothing shared before or after it,
\* so the call, its query and its return are one step.

\* getUrlByShortCode(shortCode) on a store: the Url of the first matching
\* document, undefined when there is none.
getUrlByShortCode(store, shortCode) ==
  IF findOne(store, shortCode) = 0 THEN AbsentUrl
  ELSE ToUrl(store[findOne(store, shortCode)])

\* A lookup that counts as a click.
GetUrlByShortCodeCounting(p) ==
  /\ Free(p)
  /\ \E shortCode \in CodeArgs :
       /\ Begin(p, [Started("getUrlByShortCode", "done", "", Undefined,
                            shortCode, 0, {})
                      EXCEPT !.ret = Returned(getUrlByShortCode(urls, shortCode))])
       /\ urls' = findOneAndUpdateInc(urls, shortCode)
  /\ UNCHANGED <<now, pendingInc, applied, resolved>>

\* A caller calls storage.getUrlByShortCode(shortCode).
GetUrlByShortCode(p) ==
  /\ Free(p)
  /\ \E shortCode \in CodeArgs :
       Begin(p, [Started("getUrlByShortCode", "done", "", Undefined,
                         shortCode, 0, {})
                   EXCEPT !.ret = Returned(getUrlByShortCode(urls, shortCode))])
  /\ UNCHANGED <<urls, now, pendingInc, applied, resolved>>

\* A caller calls storage.isShortCodeAvailable(shortCode).
IsShortCodeAvailable(p) ==
  /\ Free(p)
  /\ \E shortCode \in CodeArgs :
       Begin(p, [Started("isShortCodeAvailable", "done", "", Undefined,
                         shortCode, 0, {})
                   EXCEPT !.ret = Returned([available |->
                                    isShortCodeAvailable(urls, shortCode)])])
  /\ UNCHANGED <<urls, now, pendingInc, applied, resolved>>

\* A caller calls storage.getRecentUrls(limit).
GetRecentUrls(p) ==
  /\ Free(p)
  /\ \E limit \in LimitArgs :
       \E result \in RecentUrls(urls, limit) :
         Begin(p, [Started("getRecentUrls", "done", "", Undefined, Undefined,
                           limit, {})
                     EXCEPT !.ret = Returned(result)])
  /\ UNCHANGED <<urls, now, pendingInc, applied, resolved>>

\* GET /api/urls/recent: getRecentUrls(10), each Url sent with its
\* shortUrl.
GetRecent(p) ==
  /\ Free(p)
  /\ \E result \in RecentUrls(urls, RouteLimit) :
       Begin(p, [Started("GET /api/urls/recent", "done", "", Undefined,
                         Undefined, RouteLimit, {})
                   EXCEPT !.ret = RecentResponse(Returned(result))])
  /\ UNCHANGED <<urls, now, pendingInc, applied, resolved>>

\* The history of 200 responses after a redirect request for shortCode
\* whose lookup returned url.
Resolved(url, shortCode) ==
  IF url = AbsentUrl THEN resolved
  ELSE [resolved EXCEPT ![shortCode] = @ + 1]

\* The route with the increment awaited before the response.
GetRedirectAwaiting(p) ==
  /\ Free(p)
  /\ \E shortCode \in CodeArgs :
       LET url == getUrlByShortCode(urls, shortCode) IN
       /\ Begin(p, [Started("GET /api/redirect", "done", "", Undefined,
                            shortCode, 0, {})
                      EXCEPT !.ret = IF url = AbsentUrl
                                     THEN Response(404, [message |-> "URL not found"])
                                     ELSE Response(200, [longUrl |-> url.longUrl])])
       /\ urls' = findOneAndUpdateInc(urls, shortCode)
       /\ resolved' = Resolved(url, shortCode)
  /\ UNCHANGED <<now, pendingInc, applied>>

\* The route with the increment started before the lookup's result is
\* looked at.
GetRedirectCountingFirst(p) ==
  /\ Free(p)
  /\ \E shortCode \in CodeArgs :
       LET url == getUrlByShortCode(urls, shortCode) IN
       /\ Begin(p, [Started("GET /api/redirect", "done", "", Undefined,
                            shortCode, 0, {})
                      EXCEPT !.ret = IF url = AbsentUrl
                                     THEN Response(404, [message |-> "URL not found"])
                                     ELSE Response(200, [longUrl |-> url.longUrl])])
       /\ pendingInc' = [pendingInc EXCEPT ![shortCode] = @ + 1]
       /\ resolved' = Resolved(url, shortCode)
  /\ UNCHANGED <<urls, now, applied>>

\* The route calling incrementUrlClicks twice for one resolution.
GetRedirectCountingTwice(p) ==
  /\ Free(p)
  /\ \E shortCode \in CodeArgs :
       LET url == getUrlByShortCode(urls, shortCode) IN
       /\ Begin(p, [Started("GET /api/redirect", "done", "", Undefined,
                            shortCode, 0, {})
                      EXCEPT !.ret = IF url = AbsentUrl
                                     THEN Response(404, [message |-> "URL not found"])
                                     ELSE Response(200, [longUrl |-> url.longUrl])])
       /\ pendingInc' = IF url = AbsentUrl THEN pendingInc
                        ELSE [pendingInc EXCEPT ![shortCode] = @ + 2]
       /\ resolved' = Resolved(url, shortCode)
  /\ UNCHANGED <<urls, now, applied>>

\* GET /api/redirect/:shortCode: 404 when the lookup finds no record;
\* otherwise incrementUrlClicks is called without await and the 200 is sent
\* at once.
GetRedirect(p) ==
  /\ Free(p)
  /\ \E shortCode \in CodeArgs :
       LET url == getUrlByShortCode(urls, shortCode) IN
       /\ Begin(p, [Started("GET /api/redirect", "done", "", Undefined,
                            shortCode, 0, {})
                      EXCEPT !.ret = IF url = AbsentUrl
                                     THEN Response(404, [message |-> "URL not found"])
                                     ELSE Response(200, [longUrl |-> url.longUrl])])
       /\ pendingInc' = IF url = AbsentUrl THEN pendingInc
                        ELSE [pendingInc EXCEPT ![shortCode] = @ + 1]
       /\ resolved' = Resolved(url, shortCode)
  /\ UNCHANGED <<urls, now, applied>>

\* ------------------------------------------------------------- incrementUrlClicks
\* A caller calls storage.incrementUrlClicks(shortCode) and awaits it.
InvokeIncrementUrlClicks(p) ==
  /\ Free(p)
  /\ \E shortCode \in CodeArgs :
       Begin(p, Started("incrementUrlClicks", "update", "", Undefined,
                        shortCode, 0, {}))
  /\ UNCHANGED <<urls, now, pendingInc, applied, resolved>>

\* The history of completed increments after one more on shortCode.
Applied(shortCode) ==
  IF findOne(urls, shortCode) = 0 THEN applied
  ELSE [applied EXCEPT ![shortCode] = @ + 1]

\* The update of an awaited incrementUrlClicks call, and its return.
IncrementUrlClicks(p) ==
  /\ req[p].pc = "update"
  /\ urls' = findOneAndUpdateInc(urls, req[p].shortCode)
  /\ applied' = Applied(req[p].shortCode)
  /\ Finish(p, Returned(Void))
  /\ UNCHANGED <<now, pendingInc, resolved>>

\* The update of an incrementUrlClicks call the redirect route left
\* running.
DetachedIncrement(shortCode) ==
  /\ pendingInc[shortCode] > 0
  /\ urls' = findOneAndUpdateInc(urls, shortCode)
  /\ applied' = Applied(shortCode)
  /\ pendingInc' = [pendingInc EXCEPT ![shortCode] = @ - 1]
  /\ UNCHANGED <<now, req, calls, resolved>>

\* ------------------------------------------------------------- store failures
\* Storage methods that catch the rejection of a lookup and report no
\* record.
FailureOutcomeSwallowing(op, error) ==
  CASE op = "POST /api/shorten" -> ShortenResponse(Threw(error))
    [] op = "GET /api/redirect" -> Response(404, [message |-> "URL not found"])
    [] op = "GET /api/urls/recent" -> RecentResponse(Returned(<<>>))
    [] op = "getUrlByShortCode" -> Returned(AbsentUrl)
    [] op = "getRecentUrls" -> Returned(<<>>)
    [] OTHER -> Threw(error)

\* What the caller of a failed storage call gets: the rejection for a
\* direct call, the route's 500 for a routed one.
FailureOutcome(op, error) ==
  CASE op = "POST /api/shorten" -> ShortenResponse(Threw(error))
    [] op = "GET /api/redirect" -> Response(500, [message |-> "Server error"])
    [] op = "GET /api/urls/recent" -> RecentResponse(Threw(error))
    [] OTHER -> Threw(error)

\* connectToDatabase or the query that createShortUrl or an awaited
\* incrementUrlClicks waits for rejects.
StoreFails(p) ==
  /\ req[p].pc \in {"connect", "available", "save", "update"}
  /\ req' = [req EXCEPT ![p].pc = "done", ![p].createdAt = 0,
                        ![p].failed = TRUE,
                        ![p].ret = FailureOutcome(req[p].op, "store error")]
  /\ calls' = calls
  /\ UNCHANGED <<urls, now, pendingInc, applied, resolved>>

\* The operations that are one read of the store.
ReadOps ==
  {"getUrlByShortCode", "isShortCodeAvailable", "getRecentUrls",
   "GET /api/redirect", "GET /api/urls/recent"}

\* A read whose connectToDatabase or query rejects.
ReadFails(p) ==
  /\ Free(p)
  /\ \E op \in ReadOps :
       Begin(p, [Started(op, "done", "", Undefined, Undefined, 0, {})
                   EXCEPT !.failed = TRUE,
                          !.ret = FailureOutcome(op, "store error")])
  /\ UNCHANGED <<urls, now, pendingInc, applied, resolved>>

\* A detached incrementUrlClicks rejects; .catch(console.error) logs it.
DetachedIncrementFails(shortCode) ==
  /\ pendingInc[shortCode] > 0
  /\ pendingInc' = [pendingInc EXCEPT ![shortCode] = @ - 1]
  /\ UNCHANGED <<urls, now, req, calls, applied, resolved>>

\* ------------------------------------------------------------- specifications
Next ==
  \/ \E p \in Procs : InvokeCreateShortUrl(p)
  \/ \E p \in Procs : PostShorten(p)
  \/ \E p \in Procs : CreateChooseCode(p)
  \/ \E p \in Procs : CreateCheckAlias(p)
  \/ \E p \in Procs : CreateSave(p)
  \/ \E p \in Procs : GetUrlByShortCode(p)
  \/ \E p \in Procs : IsShortCodeAvailable(p)
  \/ \E p \in Procs : GetRecentUrls(p)
  \/ \E p \in Procs : GetRecent(p)
  \/ \E p \in Procs : GetRedirect(p)
  \/ \E p \in Procs : InvokeIncrementUrlClicks(p)
  \/ \E p \in Procs : IncrementUrlClicks(p)
  \/ \E c \in CodeArgs : DetachedIncrement(c)

\* The store answers every query.
Spec == Init /\ [][Next]_vars

NextStoreError ==
  \/ Next
  \/ \E p \in Procs : StoreFails(p)
  \/ \E p \in Procs : ReadFails(p)
  \/ \E c \in CodeArgs : DetachedIncrementFails(c)

\* The store may reject any query.
SpecStoreError == Init /\ [][NextStoreError]_vars

\* The server as it runs: the storage methods are called by the routes
\* only.
NextRoutes ==
  \/ \E p \in Procs : PostShorten(p)
  \/ \E p \in Procs : CreateChooseCode(p)
  \/ \E p \in Procs : CreateCheckAlias(p)
  \/ \E p \in Procs : CreateSave(p)
  \/ \E p \in Procs : GetRecent(p)
  \/ \E p \in Procs : GetRedirect(p)
  \/ \E c \in CodeArgs : DetachedIncrement(c)

\* The store answers every query, and the event loop gets to every
\* incrementUrlClicks a redirect left running: its update is done in the
\* end.
SpecRoutes ==
  /\ Init
  /\ [][NextRoutes]_vars
  /\ \A c \in CodeArgs : WF_vars(DetachedIncrement(c))

\* ------------------------------------------------------------- properties
CreateOps == {"createShortUrl", "POST /api/shorten"}

ConflictError == Threw("Custom alias is already in use")
DuplicateKeyError == Threw("E11000 duplicate key")

\* p takes a step.
Steps(p) == req'[p] # req[p]

\* C1: in every reachable state, whatever the interleaving of the
\* createShortUrl calls, no two records of the store have the same
\* shortCode.
C1_ShortCodeUnique ==
  \A i, j \in 1..Len(urls) : i # j => urls[i].shortCode # urls[j].shortCode

\* C1's case: two calls passed the same alias, both found it free, and the
\* store rejected the second save.
C1_Witness ==
  \E p, q \in Procs :
    /\ p # q
    /\ req[p].op = "createShortUrl" /\ req[q].op = "createShortUrl"
    /\ Truthy(req[p].customAlias)
    /\ req[p].customAlias = req[q].customAlias
    /\ req[p].pc = "done" /\ req[p].ret.kind = "return"
    /\ req[q].pc = "done" /\ req[q].ret = DuplicateKeyError

\* C2: a createShortUrl whose alias was a shortCode of the store when it
\* was called never writes to the store, never reaches the save, and ends
\* with the conflict error (the 500 carrying it, through the route).
C2_TakenAliasConflicts ==
  [][\A p \in Procs :
       (/\ req[p].op \in CreateOps
        /\ req[p].pc \in {"connect", "available"}
        /\ Truthy(req[p].customAlias)
        /\ req[p].customAlias \in req[p].pre
        /\ Steps(p))
       => /\ urls' = urls
          /\ req'[p].pc \in {"available", "done"}
          /\ req'[p].pc = "done" => req'[p].ret = CreateOutcome(p, ConflictError)]_vars

\* C2's case: a call failed on an alias the store held before it, and the
\* record holding it has another longUrl than the call's.
C2_Witness ==
  \E p \in Procs :
    /\ req[p].op = "createShortUrl"
    /\ req[p].pc = "done"
    /\ req[p].customAlias \in req[p].pre
    /\ req[p].ret = ConflictError
    /\ urls[findOne(urls, req[p].customAlias)].longUrl # req[p].longUrl

\* C3: every createShortUrl call without a customAlias returns a record
\* whose shortCode has length 6 and was no shortCode of the store before
\* the call.
C3_GeneratedCodeReturnedFresh ==
  \A p \in Procs :
    (req[p].op = "createShortUrl" /\ req[p].pc = "done"
       /\ req[p].customAlias = Undefined)
    => /\ req[p].ret.kind = "return"
       /\ Len(req[p].ret.value.shortCode) = CodeLength
       /\ req[p].ret.value.shortCode \notin req[p].pre

\* What holds of C3: when such a call does return, the record's shortCode
\* has length 6 and was no shortCode of the store before the call.
C3_ReturnedCodeIsFresh ==
  \A p \in Procs :
    (req[p].op = "createShortUrl" /\ req[p].pc = "done"
       /\ req[p].customAlias = Undefined /\ req[p].ret.kind = "return")
    => /\ Len(req[p].ret.value.shortCode) = CodeLength
       /\ req[p].ret.value.shortCode \notin req[p].pre

\* The clicks of the record with this shortCode.
Clicks(store, shortCode) ==
  store[findOne(store, shortCode)].clicks

\* C4: an awaited incrementUrlClicks(code) on an existing record adds
\* exactly 1 to that record's clicks and changes nothing else, so that N
\* calls in sequence add N, and getUrlByShortCode then returns the new
\* count; on a code with no record it returns without error and leaves
\* the store as it was.
C4_IncrementAddsOne ==
  [][\A p \in Procs :
       (req[p].pc = "update" /\ req'[p].pc = "done")
       => LET code == req[p].shortCode
              i == findOne(urls, code) IN
          /\ req'[p].ret = Returned(Void)
          /\ i = 0 => urls' = urls
          /\ i # 0 =>
               /\ Len(urls') = Len(urls)
               /\ urls'[i].clicks = urls[i].clicks + 1
               /\ \A j \in 1..Len(urls) : j # i => urls'[j] = urls[j]
               /\ getUrlByShortCode(urls', code).clicks
                    = getUrlByShortCode(urls, code).clicks + 1]_vars

\* C4's case: two awaited calls on the record in sequence left clicks = 2.
C4_Witness ==
  /\ req["r1"].op = "incrementUrlClicks" /\ req["r1"].pc = "done"
  /\ req["r2"].pc = "idle"
  /\ calls = 2
  /\ req["r1"].ret = Returned(Void)
  /\ findOne(urls, req["r1"].shortCode) # 0
  /\ Clicks(urls, req["r1"].shortCode) = 2

\* C5: whatever the interleaving, each record's clicks is the number of
\* incrementUrlClicks calls completed on it: no increment is lost.
C5_NoLostIncrement ==
  \A i \in 1..Len(urls) :
    urls[i].clicks = IF urls[i].shortCode \in CodeArgs
                     THEN applied[urls[i].shortCode] ELSE 0

\* C5's case: two requests had an increment of the same record in flight
\* together, and both completed.
C5_Witness ==
  \E code \in CodeArgs :
    /\ \A p \in Procs :
         /\ req[p].op = "incrementUrlClicks"
         /\ req[p].shortCode = code
         /\ req[p].pc = "done"
         /\ req[p].ret = Returned(Void)
    /\ findOne(urls, code) # 0
    /\ Clicks(urls, code) = 2

\* C6: a record is created with clicks = 0, and in every step each record's
\* clicks stays the same or grows by exactly 1; it is never negative.
C6_ClicksStepByOne ==
  [][/\ Len(urls') >= Len(urls)
     /\ \A i \in 1..Len(urls') :
          /\ urls'[i].clicks >= 0
          /\ i <= Len(urls) =>
               urls'[i].clicks \in {urls[i].clicks, urls[i].clicks + 1}
          /\ i > Len(urls) => urls'[i].clicks = 0]_vars

\* C6's case: a record that was clicked, beside one just created.
C6_Witness ==
  /\ Len(urls) = 2
  /\ urls[1].clicks = 1
  /\ urls[2].clicks = 0

\* p answers a GET /api/redirect in this step.
RedirectAnswered(p) ==
  Steps(p) /\ req'[p].op = "GET /api/redirect"

\* C7: a GET /api/redirect whose lookup finds a record answers 200 with the
\* record's longUrl in the step that leaves the increment running, before
\* the increment touches the store; and no later step of that increment,
\* success or failure, changes any response.
C7_FireAndForget ==
  [][/\ \A p \in Procs :
          (RedirectAnswered(p) /\ findOne(urls, req'[p].shortCode) # 0)
          => /\ req'[p].ret =
                  Response(200, [longUrl |->
                     urls[findOne(urls, req'[p].shortCode)].longUrl])
             /\ pendingInc'[req'[p].shortCode] = pendingInc[req'[p].shortCode] + 1
             /\ urls' = urls
     /\ (\E c \in CodeArgs : pendingInc'[c] < pendingInc[c]) => req' = req]_vars

\* C7's case: the 200 was sent, the increment failed afterwards, and the
\* record was never clicked.
C7_Witness ==
  \E p \in Procs :
    /\ req[p].op = "GET /api/redirect"
    /\ req[p].ret.status = 200
    /\ \A c \in CodeArgs : pendingInc[c] = 0
    /\ Clicks(urls, req[p].shortCode) = 0

\* C8: getRecentUrls(k) returns at most k records, the most recently
\* created ones, sorted by createdAt descending, and none for k = 0.
C8_RecentAtMostK ==
  [][\A p \in Procs :
       (Steps(p) /\ req'[p].op = "getRecentUrls" /\ req'[p].ret.kind = "return")
       => LET k == req'[p].limit
              r == req'[p].ret.value IN
          /\ Len(r) <= k
          /\ k = 0 => r = <<>>
          /\ Len(r) = IF Len(urls) < k THEN Len(urls) ELSE k
          /\ \A i, j \in 1..Len(r) : i < j => r[i].createdAt >= r[j].createdAt
          /\ \A i \in 1..Len(urls) :
               (\A j \in 1..Len(r) : r[j] # ToUrl(urls[i]))
               => \A j \in 1..Len(r) : r[j].createdAt >= urls[i].createdAt]_vars

\* What holds of C8: the same for every k >= 1.
C8_RecentForPositiveK ==
  [][\A p \in Procs :
       (Steps(p) /\ req'[p].op = "getRecentUrls" /\ req'[p].ret.kind = "return"
          /\ req'[p].limit >= 1)
       => LET k == req'[p].limit
              r == req'[p].ret.value IN
          /\ Len(r) = IF Len(urls) < k THEN Len(urls) ELSE k
          /\ \A i, j \in 1..Len(r) : i < j => r[i].createdAt >= r[j].createdAt
          /\ \A i \in 1..Len(urls) :
               (\A j \in 1..Len(r) : r[j] # ToUrl(urls[i]))
               => \A j \in 1..Len(r) : r[j].createdAt >= urls[i].createdAt]_vars

\* C9: getUrlByShortCode leaves the store (clicks included) as it was, and
\* what it returns is decided by the store and the shortCode alone: the
\* record with exactly that shortCode, or absent, never an error.  So a
\* lookup that directly follows a lookup of the same shortCode (the one call
\* made so far, hence no write between the two) returns what that one
\* returned.
C9_LookupIsPureRead ==
  [][\A p \in Procs :
       (Steps(p) /\ req'[p].op = "getUrlByShortCode")
       => LET code == req'[p].shortCode
              m == {i \in 1..Len(urls) : urls[i].shortCode = code} IN
          /\ urls' = urls
          /\ req'[p].ret.kind = "return"
          /\ m = {} => req'[p].ret.value = AbsentUrl
          /\ m # {} => \E i \in m :
               /\ req'[p].ret.value.shortCode = code
               /\ req'[p].ret.value.longUrl = urls[i].longUrl
               /\ req'[p].ret.value.clicks = urls[i].clicks
               /\ req'[p].ret.value.createdAt = urls[i].createdAt
               /\ req'[p].ret.value.customAlias = urls[i].customAlias
          /\ \A q \in Procs \ {p} :
               (req[q].op = "getUrlByShortCode" /\ req[q].pc = "done"
                  /\ req[q].shortCode = code /\ calls = 1)
               => req'[p].ret = req[q].ret]_vars

\* C9's case: two lookups of a record, one right after the other, returned
\* the same Url.
C9_Witness ==
  /\ calls = 2
  /\ \A p \in Procs :
       /\ req[p].op = "getUrlByShortCode"
       /\ req[p].pc = "done"
       /\ req[p].shortCode = req["r1"].shortCode
       /\ req[p].ret = req["r1"].ret
       /\ req[p].ret.value # AbsentUrl

\* The step completes an incrementUrlClicks on shortCode.
IncrementCompletes(shortCode) ==
  \/ \E p \in Procs :
       /\ req[p].op = "incrementUrlClicks"
       /\ req[p].pc = "update"
       /\ req[p].shortCode = shortCode
       /\ req'[p].pc = "done"
  \/ /\ shortCode \in CodeArgs
     /\ pendingInc'[shortCode] = pendingInc[shortCode] - 1

\* C10: no step deletes a record or changes its _id, shortCode, longUrl,
\* customAlias or createdAt; a step changes a record's clicks only by
\* completing an incrementUrlClicks on its shortCode.
C10_OnlyClicksChange ==
  [][/\ Len(urls') >= Len(urls)
     /\ \A i \in 1..Len(urls) :
          /\ urls'[i]._id = urls[i]._id
          /\ urls'[i].shortCode = urls[i].shortCode
          /\ urls'[i].longUrl = urls[i].longUrl
          /\ urls'[i].customAlias = urls[i].customAlias
          /\ urls'[i].createdAt = urls[i].createdAt
          /\ urls'[i].clicks # urls[i].clicks
               => IncrementCompletes(urls[i].shortCode)]_vars

\* C10's case: the record was clicked, and a later createShortUrl on its
\* alias with another longUrl failed and left it as it was.
C10_Witness ==
  \E p \in Procs :
    /\ req[p].op = "createShortUrl"
    /\ req[p].pc = "done"
    /\ req[p].ret = ConflictError
    /\ req[p].longUrl # urls[1].longUrl
    /\ urls[1].shortCode = req[p].customAlias
    /\ urls[1].clicks = 1

\* C11: a GET /api/redirect whose lookup finds no record answers 404 and
\* changes nothing: no incrementUrlClicks is started for it, and no
\* record's clicks changes.
C11_NotFoundNoIncrement ==
  [][\A p \in Procs :
       (RedirectAnswered(p) /\ findOne(urls, req'[p].shortCode) = 0)
       => /\ req'[p].ret.kind = "response"
          /\ req'[p].ret.status = 404
          /\ pendingInc' = pendingInc
          /\ urls' = urls
          /\ applied' = applied]_vars

\* C11's case: a 404 was sent while the store held a record under another
\* shortCode, which stayed unclicked with no increment in flight.
C11_Witness ==
  \E p \in Procs :
    /\ req[p].op = "GET /api/redirect"
    /\ req[p].ret.status = 404
    /\ Len(urls) = 1
    /\ urls[1].shortCode # req[p].shortCode
    /\ urls[1].clicks = 0
    /\ \A c \in CodeArgs : pendingInc[c] = 0

\* p is a POST /api/shorten that has not been answered.
ShortenInFlight(p) ==
  req[p].op = "POST /api/shorten" /\ req[p].pc # "done"

\* C12: a POST /api/shorten is answered once, in the step that ends it:
\* 400 at once, before any storage call, when the body fails validation;
\* otherwise nothing until createShortUrl ends, then 201 with the created
\* record's shortCode, longUrl and clicks when it saved a record, and 500
\* when it failed (alias conflict or store failure).
C12_ShortenStatus ==
  [][\A p \in Procs :
       /\ (Steps(p) /\ req'[p].op = "POST /api/shorten" /\ ~ShortenInFlight(p))
          => /\ urls' = urls
             /\ IF safeParse([longUrl |-> req'[p].longUrl,
                              customAlias |-> req'[p].customAlias]).success
                THEN req'[p].pc = "connect" /\ req'[p].ret = NoRet
                ELSE /\ req'[p].pc = "done"
                     /\ req'[p].ret.kind = "response"
                     /\ req'[p].ret.status = 400
       /\ (Steps(p) /\ ShortenInFlight(p))
          => IF req'[p].pc # "done" THEN req'[p].ret = NoRet /\ urls' = urls
             ELSE /\ req'[p].ret.kind = "response"
                  /\ IF urls' # urls
                     THEN /\ req'[p].ret.status = 201
                          /\ req'[p].ret.body.shortCode = urls'[Len(urls')].shortCode
                          /\ req'[p].ret.body.longUrl = urls'[Len(urls')].longUrl
                          /\ req'[p].ret.body.clicks = urls'[Len(urls')].clicks
                          /\ req'[p].ret.body.longUrl = req[p].longUrl
                     ELSE req'[p].ret.status = 500]_vars

\* C12's case: of two requests for the same alias one was answered 201 and
\* the other 500.
C12_Witness ==
  \E p, q \in Procs :
    /\ req[p].op = "POST /api/shorten" /\ req[q].op = "POST /api/shorten"
    /\ req[p].customAlias = req[q].customAlias
    /\ req[p].pc = "done" /\ req[p].ret.status = 201
    /\ req[q].pc = "done" /\ req[q].ret.status = 500

Routes == {"POST /api/shorten", "GET /api/redirect", "GET /api/urls/recent"}

\* C13: an operation one of whose store queries was rejected ends in
\* failure: a storage method called directly throws (it returns no value,
\* no absent, no empty result), and a route answers 500.  The one rejection
\* that reaches nobody is that of the increment the redirect route left
\* running: the step in which it fails changes no request.
C13_StoreErrorPropagates ==
  /\ [](\A p \in Procs :
          req[p].failed =>
            /\ req[p].pc = "done"
            /\ req[p].op \in Routes =>
                 req[p].ret.kind = "response" /\ req[p].ret.status = 500
            /\ req[p].op \notin Routes => req[p].ret.kind = "throw")
  /\ [][(/\ \E c \in CodeArgs : pendingInc'[c] < pendingInc[c]
         /\ applied' = applied)
        => req' = req /\ urls' = urls]_vars

\* C13's case: the lookup of a GET /api/redirect was rejected and the
\* route answered 500, while a createShortUrl called directly threw on a
\* rejected query.
C13_Witness ==
  \E p, q \in Procs :
    /\ req[p].failed /\ req[p].op = "GET /api/redirect"
    /\ req[p].ret.status = 500
    /\ req[q].failed /\ req[q].op = "createShortUrl"
    /\ req[q].ret.kind = "throw"

\* C14: a createShortUrl that returns a record wrote the store exactly
\* once: the step that returns appends one document and leaves the others
\* as they were, the steps before it write nothing.  The document has
\* clicks 0, the longUrl given and, when the alias is non-empty, the alias
\* as shortCode; the record returned is the document stored, and a lookup
\* of its shortCode on the resulting store returns that same record.
C14_CreateWritesOneRecord ==
  [][\A p \in Procs :
       (Steps(p) /\ req[p].op = "createShortUrl" /\ req[p].pc # "done")
       => IF req'[p].ret.kind = "return"
          THEN LET doc == urls'[Len(urls')] IN
               /\ Len(urls') = Len(urls) + 1
               /\ SubSeq(urls', 1, Len(urls)) = urls
               /\ doc.clicks = 0
               /\ doc.longUrl = req[p].longUrl
               /\ Truthy(req[p].customAlias)
                    => doc.shortCode = req[p].customAlias
               /\ req'[p].ret.value = ToUrl(doc)
               /\ getUrlByShortCode(urls', doc.shortCode) = req'[p].ret.value
          ELSE urls' = urls]_vars

\* C14's case: createShortUrl with a non-empty alias returned a record,
\* and the getUrlByShortCode that followed it returned the same record.
C14_Witness ==
  \E p, q \in Procs :
    /\ req[p].op = "createShortUrl" /\ req[p].pc = "done"
    /\ Truthy(req[p].customAlias)
    /\ req[p].ret.kind = "return"
    /\ req[p].ret.value.shortCode = req[p].customAlias
    /\ req[p].ret.value.clicks = 0
    /\ req[q].op = "getUrlByShortCode" /\ req[q].ret.kind = "return"
    /\ req[q].ret.value = req[p].ret.value

\* C17: createShortUrl does with the empty string what it does with no
\* alias.  After connecting, a call whose customAlias is absent or ""
\* goes to the save without an availability check, with a generated
\* shortCode of 6 characters; a call whose customAlias is a non-empty
\* string takes the alias as shortCode and checks its availability; and
\* the document saved carries customAlias null exactly when the alias was
\* absent or "", the alias itself otherwise.
C17_EmptyAliasIsAbsent ==
  [][\A p \in Procs :
       (Steps(p) /\ req[p].op \in CreateOps)
       => /\ req[p].pc = "connect" =>
               IF req[p].customAlias \in {Undefined, <<>>}
               THEN /\ req'[p].pc = "save"
                    /\ req'[p].shortCode \in generateShortCode
                    /\ Len(req'[p].shortCode) = 6
               ELSE /\ req'[p].pc = "available"
                    /\ req'[p].shortCode = req[p].customAlias
          /\ req'[p].pc = "available" =>
               /\ req[p].pc = "connect"
               /\ req[p].customAlias \notin {Undefined, <<>>}
          /\ urls' # urls =>
               urls'[Len(urls')].customAlias =
                 IF req[p].customAlias \in {Undefined, <<>>}
                 THEN Null ELSE req[p].customAlias]_vars

\* C17's case: createShortUrl called with "" returned a record with a
\* generated 6-character shortCode and customAlias null.
C17_Witness ==
  \E p \in Procs :
    /\ req[p].op = "createShortUrl" /\ req[p].pc = "done"
    /\ req[p].customAlias = <<>>
    /\ req[p].ret.kind = "return"
    /\ Len(req[p].ret.value.shortCode) = 6
    /\ req[p].ret.value.customAlias = Null

\* C16: the records POST /api/shorten requests add are as many as their
\* 201 responses, however the requests interleave: the step in which a
\* request is answered 201 appends exactly one record and changes no
\* other, and every other step of a request, the one that answers 400 or
\* 500 included, leaves the store as it was.
C16_OneRecordPerCreated ==
  [][\A p \in Procs :
       (Steps(p) /\ req'[p].op = "POST /api/shorten")
       => IF req'[p].pc = "done" /\ req'[p].ret.status = 201
          THEN /\ Len(urls') = Len(urls) + 1
               /\ SubSeq(urls', 1, Len(urls)) = urls
          ELSE urls' = urls]_vars

\* C16's case: two requests were in flight together on an empty store,
\* both were answered 201, and the store holds their two records.
C16_Witness ==
  \E p, q \in Procs :
    /\ p # q
    /\ req[p].op = "POST /api/shorten" /\ req[p].pc = "done"
    /\ req[q].op = "POST /api/shorten" /\ req[q].pc = "done"
    /\ req[p].ret.status = 201 /\ req[q].ret.status = 201
    /\ req[p].pre = {} /\ req[q].pre = {}
    /\ Len(urls) = 2
    /\ urls[1].shortCode = req[p].ret.body.shortCode
    /\ urls[2].shortCode = req[q].ret.body.shortCode

\* C15: a GET /api/redirect answered 200 issues exactly one
\* incrementUrlClicks for its shortCode, in the step whose lookup found the
\* record, so that the increments issued for a shortCode (done or still
\* running) are always as many as its 200 responses; and when the event
\* loop is fair to the increments left running and the store answers,
\* from some point on every record's clicks equals the number of 200
\* responses for its shortCode.
C15_ClicksReachResolutions ==
  /\ [][\A p \in Procs :
          (RedirectAnswered(p) /\ req'[p].ret.status = 200)
          => /\ findOne(urls, req'[p].shortCode) # 0
             /\ pendingInc' = [pendingInc EXCEPT ![req'[p].shortCode] = @ + 1]
             /\ resolved' = [resolved EXCEPT ![req'[p].shortCode] = @ + 1]
             /\ applied' = applied]_vars
  /\ [](\A c \in CodeArgs : applied[c] + pendingInc[c] = resolved[c])
  /\ <>[](\A i \in 1..Len(urls) :
            urls[i].shortCode \in CodeArgs
              => urls[i].clicks = resolved[urls[i].shortCode])

\* C15's case: two GET /api/redirect for one shortCode were answered 200,
\* both increments are done and the record's clicks is 2.
C15_Witness ==
  \E c \in CodeArgs :
    /\ resolved[c] = 2
    /\ pendingInc[c] = 0
    /\ findOne(urls, c) # 0
    /\ urls[findOne(urls, c)].clicks = 2
    /\ \E p \in Procs : /\ req[p].op = "GET /api/redirect"
                        /\ req[p].shortCode = c
                        /\ req[p].ret.status = 200

====
